---- MODULE Spec2Model ----
(***************************************************************************)
(* Timbre Tweak (src/main.rs): an additive synthesizer whose Playback      *)
(* state is shared, behind one mutex, by the UI thread (MyApp::update),    *)
(* the audio backend's data callbacks (write_data) and the threads that    *)
(* (re)build the output stream (setup_audio / setup_stream).               *)
(*                                                                         *)
(* f32 values are modelled as exact rationals <<num, den>> in lowest terms *)
(* with den > 0; f32 rounding is not modelled.                             *)
(***************************************************************************)
EXTENDS Integers, Sequences, FiniteSets, TLC

VARIABLES
    stream_config,  \* Playback.stream_config: NoConfig or [channels, sample_rate]
    stream,         \* Playback.stream: 0 (None) or the index of the attempt that built it
    sample,         \* Playback.sample (u32)
    hz,             \* Playback.hz
    timbre,         \* Playback.timbre: [amp : Curve, waves : Seq(Wave)]
    lock,           \* the Mutex around Playback: [who, id] of the guard's owner
    uiPc,           \* position of the main thread inside MyApp::update
    uiFile,         \* main.rs:147, what pick_file() returned in this frame
    attempts,       \* the setup_audio calls, attempts[1] by main and the others by
                    \* spawned threads, each with the stream it built and the
                    \* write_data call the backend runs for that stream
    errs            \* number of times a stream's error callback has been invoked

vars == <<stream_config, stream, sample, hz, timbre, lock, uiPc, uiFile,
          attempts, errs>>

playback == <<stream_config, stream, sample, hz, timbre>>

-----------------------------------------------------------------------------
(* Bounds of the model *)

MaxAttempts == 2    \* setup_audio calls in one run (1 by main + spawned ones)
MaxWaves == 1       \* waves the Add wave button is followed up to, with the threads
MaxEditWaves == 2   \* ... and on the control surface alone
MaxPoints == 2      \* points the + button of a curve is followed up to
MaxFrames == 2      \* frames the backend asks for in one buffer

-----------------------------------------------------------------------------
(* Rationals standing for f32 *)

RECURSIVE GCD(_, _)
GCD(a, b) == IF b = 0 THEN a ELSE GCD(b, a % b)

Abs(n) == IF n < 0 THEN -n ELSE n

Rat(n, d) ==
    LET g == GCD(Abs(n), Abs(d))
        s == IF d < 0 THEN -1 ELSE 1
    IN  <<(s * n) \div g, (s * d) \div g>>

RAdd(x, y) == Rat(x[1] * y[2] + y[1] * x[2], x[2] * y[2])
RSub(x, y) == Rat(x[1] * y[2] - y[1] * x[2], x[2] * y[2])
RMul(x, y) == Rat(x[1] * y[1], x[2] * y[2])
RLt(x, y) == x[1] * y[2] < y[1] * x[2]
RInt(n) == <<n, 1>>
\* f32 -> integer `as` cast and f32::trunc: toward zero
RTrunc(x) == IF x[1] >= 0 THEN x[1] \div x[2] ELSE -((-x[1]) \div x[2])
\* f32::fract: x - x.trunc()
RFract(x) == RSub(x, RInt(RTrunc(x)))

Zero == RInt(0)
One == RInt(1)
Half == Rat(1, 2)

-----------------------------------------------------------------------------
(* Waveform, Curve, Wave: main.rs:37-104 *)

\* The variants of enum Waveform, as the tags serde reads and writes.
Waveform == {"Sine", "Triangle", "Sawtooth", "Square", "WhiteNoise"}

\* (t * TAU).sin().  sin has no rational value off the quarter periods: it is
\* stood for by the parabola through its zeros and extrema, which is exact at
\* every multiple of a quarter period and odd like sin.
RECURSIVE SinTau(_)
SinTau(t) ==
    IF t[1] < 0 THEN RSub(Zero, SinTau(<<-t[1], t[2]>>))
    ELSE LET f == RFract(t)
         IN  IF RLt(f, Half)
             THEN RMul(RInt(16), RMul(f, RSub(Half, f)))
             ELSE RSub(Zero, RMul(RInt(16), RMul(RSub(f, Half), RSub(One, f))))

\* Waveform::at.  WhiteNoise hashes the 32 bits of the f32 phase
\* (main.rs:65-72), which integer arithmetic on rationals cannot follow: no
\* edit and no document of the bounded inputs below selects it.
WaveformAt(w, t) ==
    CASE w = "Sine" -> SinTau(t)
      [] w = "Triangle" ->
            IF RLt(RFract(t), Half)
            THEN RSub(RMul(RFract(t), RInt(4)), One)
            ELSE RSub(RInt(3), RMul(RFract(t), RInt(4)))
      [] w = "Sawtooth" -> RSub(RMul(RFract(t), RInt(2)), One)
      [] w = "Square" -> IF RLt(RFract(t), Half) THEN RInt(-1) ELSE One

\* A result of code that may panic: ok = FALSE stands for the panic.
Ok(v) == [ok |-> TRUE, v |-> v]
Panic == [ok |-> FALSE, v |-> Zero]

\* The 0-based indices of self.0 that Curve::at reads for t >= 0 (main.rs:85-88)
CurveAtReads(c, t) ==
    LET k == RTrunc(RMul(t, RInt(Len(c) - 1)))
    IN  IF k = Len(c) - 1 THEN {k} ELSE {k, k + 1}

\* Curve::at without the branch for the last index: it always interpolates
CurveAtOpen(c, t) ==
    IF Len(c) = 0 THEN Panic
    ELSE LET i == RMul(t, RInt(Len(c) - 1))
             fract == RFract(i)
             k == RTrunc(i)
         IN  IF k + 1 > Len(c) - 1 THEN Panic
             ELSE Ok(RAdd(RMul(RSub(One, fract), c[k + 1]),
                          RMul(fract, c[k + 2])))

\* Curve::at, for t >= 0.  self.0 is 0-based, the sequence c is 1-based.
\* len() - 1 on an empty Vec overflows usize: a panic in a debug build, and in
\* a release build usize::MAX, after which self.0[i] is out of bounds for
\* every t.  An index i > len() - 1 (t > 1) is out of bounds as well.
CurveAt(c, t) ==
    IF Len(c) = 0 THEN Panic
    ELSE LET i == RMul(t, RInt(Len(c) - 1))
             fract == RFract(i)
             k == RTrunc(i)
         IN  IF k = Len(c) - 1 THEN Ok(c[k + 1])
             ELSE IF k > Len(c) - 1 THEN Panic
             ELSE Ok(RAdd(RMul(RSub(One, fract), c[k + 1]),
                          RMul(fract, c[k + 2])))

\* Wave::at
WaveAt(wave, sec, h) ==
    LET f == CurveAt(wave.freq, sec)
        a == CurveAt(wave.amp, sec)
    IN  IF ~f.ok \/ ~a.ok THEN Panic
        ELSE Ok(RMul(WaveformAt(wave.waveform, RMul(RMul(sec, h), f.v)), a.v))

\* main.rs:299-305: the sum of the waves, times the master amp
RECURSIVE SumWaves(_, _, _)
SumWaves(waves, sec, h) ==
    IF waves = <<>> THEN Ok(Zero)
    ELSE LET x == WaveAt(Head(waves), sec, h)
             r == SumWaves(Tail(waves), sec, h)
         IN  IF ~x.ok \/ ~r.ok THEN Panic ELSE Ok(RAdd(x.v, r.v))

\* A mix whose empty sum is 1.0, so that no waves let the master curve through
TimbreAtUnit(t, sec, h) ==
    LET s == IF t.waves = <<>> THEN Ok(One) ELSE SumWaves(t.waves, sec, h)
        a == CurveAt(t.amp, sec)
    IN  IF ~s.ok \/ ~a.ok THEN Panic ELSE Ok(RMul(s.v, a.v))

\* main.rs:299-305: value = sum * timbre.amp.at(sec)
TimbreAt(t, sec, h) ==
    LET s == SumWaves(t.waves, sec, h)
        a == CurveAt(t.amp, sec)
    IN  IF ~s.ok \/ ~a.ok THEN Panic ELSE Ok(RMul(s.v, a.v))

\* The sample formats of the model, out of those of setup_audio (main.rs:250-262)
SampleFormat == {"F32", "I16"}

\* T::from_sample (cpal / dasp_sample): f32 is kept, i16 is (s * 32768.0) as i16,
\* a cast that truncates toward zero and saturates.
FromSample(fmt, v) ==
    IF fmt = "F32" THEN v
    ELSE LET n == RTrunc(RMul(v, RInt(32768)))
         IN  RInt(IF n > 32767 THEN 32767 ELSE IF n < -32768 THEN -32768 ELSE n)

\* A slot of the output buffer the callback has not written
Unwritten == <<>>

Min(a, b) == IF a < b THEN a ELSE b

\* The loop of write_data (main.rs:297-311) over the slots from position pos:
\* one frame per chunk of cfg.channels slots, the last chunk possibly shorter.
RECURSIVE FillFrom(_, _, _, _, _, _, _)
FillFrom(buf, pos, smp, cfg, fmt, t, h) ==
    IF pos > Len(buf) THEN [data |-> buf, sample |-> smp, ok |-> TRUE]
    ELSE LET sec == Rat(smp, cfg.sample_rate)
             value == TimbreAt(t, sec, h)
             last == Min(pos + cfg.channels - 1, Len(buf))
         IN  IF ~value.ok THEN [data |-> buf, sample |-> smp, ok |-> FALSE]
             ELSE FillFrom([j \in 1..Len(buf) |->
                                IF j >= pos /\ j <= last
                                THEN FromSample(fmt, value.v) ELSE buf[j]],
                           last + 1, (smp + 1) % cfg.sample_rate, cfg, fmt, t, h)

-----------------------------------------------------------------------------
(* The persisted patch: serde_json over the derives of main.rs:37,78,93,106 *)

JNum(x) == [k |-> "num", v |-> x]
JStr(x) == [k |-> "str", v |-> x]
JArr(x) == [k |-> "arr", v |-> x]
JObj(x) == [k |-> "obj", v |-> x]

\* Deserialize for Curve: a newtype over Vec<f32>, so an array of numbers of
\* any length, the empty one included.
DeCurveOk(j) == j.k = "arr" /\ \A i \in 1..Len(j.v) : j.v[i].k = "num"
DeCurve(j) == [i \in 1..Len(j.v) |-> j.v[i].v]

\* Deserialize for Waveform: a unit variant is its name.
DeWaveformOk(j) == j.k = "str" /\ j.v \in Waveform

\* Deserialize for Wave: an object with the three fields.
DeWaveOk(j) ==
    /\ j.k = "obj"
    /\ {"waveform", "freq", "amp"} \subseteq DOMAIN j.v
    /\ DeWaveformOk(j.v.waveform)
    /\ DeCurveOk(j.v.freq)
    /\ DeCurveOk(j.v.amp)
DeWave(j) == [waveform |-> j.v.waveform.v, freq |-> DeCurve(j.v.freq),
              amp |-> DeCurve(j.v.amp)]

\* serde_json::from_slice::<Timbre> (main.rs:149)
DeTimbreOk(j) ==
    /\ j.k = "obj"
    /\ {"amp", "waves"} \subseteq DOMAIN j.v
    /\ DeCurveOk(j.v.amp)
    /\ j.v.waves.k = "arr"
    /\ \A i \in 1..Len(j.v.waves.v) : DeWaveOk(j.v.waves.v[i])
DeTimbre(j) == [amp |-> DeCurve(j.v.amp),
                waves |-> [i \in 1..Len(j.v.waves.v) |-> DeWave(j.v.waves.v[i])]]

\* What the Load dialog can come back with: nothing, or one of these paths.
NotClicked == ""
Cancelled == "cancelled"
Paths == {"patch.json", "empty.json", "scalar.json", "unreadable.json"}

\* fs::read (main.rs:148)
ReadOk(path) == path # "unreadable.json"
FileContent(path) ==
    CASE path = "patch.json" ->
            JObj([amp |-> JArr(<<JNum(One), JNum(Half)>>),
                  waves |-> JArr(<<JObj([waveform |-> JStr("Square"),
                                         freq |-> JArr(<<JNum(One)>>),
                                         amp |-> JArr(<<JNum(One)>>)])>>)])
      [] path = "empty.json" ->
            JObj([amp |-> JArr(<<>>), waves |-> JArr(<<>>)])
      [] path = "scalar.json" ->
            JObj([amp |-> JArr(<<JNum(Half)>>),
                  waves |-> JArr(<<JObj([waveform |-> JStr("Sine"),
                                         freq |-> JNum(One),
                                         amp |-> JArr(<<JNum(Half)>>)])>>)])

\* main.rs:147-149: the three conditions of the if-let chain
LoadOk(choice) ==
    /\ choice \notin {NotClicked, Cancelled}
    /\ ReadOk(choice)
    /\ DeTimbreOk(FileContent(choice))

-----------------------------------------------------------------------------
(* The control surface: ui_curve and wave_ui, main.rs:180-238 *)

\* What the pointer did to the widgets of one ui_curve call in one frame
NoCurveEv == [plus |-> FALSE, minus |-> FALSE, drag |-> <<>>]
\* ... and to the widgets of one wave_ui call
NoWaveEv == [up |-> FALSE, down |-> FALSE, amp |-> NoCurveEv, freq |-> NoCurveEv,
             waveform |-> "", remove |-> FALSE]

\* ui_curve: "+" duplicates the last point (last().unwrap() panics on an empty
\* curve), "-" pops when more than one point is left, then the DragValues.
ui_curve(c, e) ==
    IF e.plus /\ Len(c) = 0 THEN Panic
    ELSE LET c1 == IF e.plus THEN Append(c, c[Len(c)]) ELSE c
             c2 == IF e.minus /\ Len(c1) > 1 THEN SubSeq(c1, 1, Len(c1) - 1) ELSE c1
         IN  Ok(IF e.drag # <<>> /\ e.drag[1] <= Len(c2)
                THEN [c2 EXCEPT ![e.drag[1]] = e.drag[2]]
                ELSE c2)

\* wave_ui on one wave: i is the 0-based counter of the waves retained so far,
\* len the number of waves before the frame.
wave_ui(wave, e, i, len, swap) ==
    LET s1 == IF e.up /\ i # 0 THEN Append(swap, <<i, i - 1>>) ELSE swap
        s2 == IF e.down /\ i # len - 1 THEN Append(s1, <<i, i + 1>>) ELSE s1
        a == ui_curve(wave.amp, e.amp)
        f == ui_curve(wave.freq, e.freq)
    IN  [ok |-> a.ok /\ f.ok,
         wave |-> [waveform |-> IF e.waveform = "" THEN wave.waveform ELSE e.waveform,
                   freq |-> f.v, amp |-> a.v],
         swap |-> s2,
         retain |-> ~e.remove]

\* waves.retain_mut(|wave| wave_ui(...)), main.rs:158-166, from wave n on
RECURSIVE retain_mut(_, _, _, _, _, _)
retain_mut(waves, evs, n, i, kept, swap) ==
    IF n > Len(waves) THEN [ok |-> TRUE, waves |-> kept, swap |-> swap]
    ELSE LET r == wave_ui(waves[n], evs[n], i, Len(waves), swap)
         IN  IF ~r.ok THEN [ok |-> FALSE, waves |-> kept, swap |-> swap]
             ELSE retain_mut(waves, evs, n + 1,
                             IF r.retain THEN i + 1 ELSE i,
                             IF r.retain THEN Append(kept, r.wave) ELSE kept,
                             r.swap)

\* for (i1, i2) in swap { waves.swap(i1, i2) }, main.rs:167-169; slice::swap
\* panics on an index that is out of bounds.
RECURSIVE ApplySwaps(_, _)
ApplySwaps(waves, swap) ==
    IF swap = <<>> THEN [ok |-> TRUE, waves |-> waves]
    ELSE LET a == Head(swap)[1] + 1
             b == Head(swap)[2] + 1
         IN  IF a > Len(waves) \/ b > Len(waves) THEN [ok |-> FALSE, waves |-> waves]
             ELSE ApplySwaps([waves EXCEPT ![a] = waves[b], ![b] = waves[a]],
                             Tail(swap))

\* main.rs:157-169: the master curve, the waves, the swaps
EditTimbre(t, ev) ==
    LET a == ui_curve(t.amp, ev.amp)
        r == retain_mut(t.waves, ev.waves, 1, 0, <<>>, <<>>)
        w == ApplySwaps(r.waves, r.swap)
    IN  IF ~a.ok \/ ~r.ok \/ ~w.ok THEN [ok |-> FALSE, v |-> t]
        ELSE [ok |-> TRUE, v |-> [amp |-> a.v, waves |-> w.waves]]

\* The wave of the Add wave button, main.rs:130-134
NewWave == [waveform |-> "Sine", freq |-> <<One>>, amp |-> <<Half>>]

(* The frames the model follows: the pointer acts on at most one widget. *)
HzValues == {RInt(440), RInt(2000)}
Clicks == {"none", "save", "load"}
DragValues == {One}
WaveformChoices == {"Square"}

NoEv(t) == [amp |-> NoCurveEv, waves |-> [n \in 1..Len(t.waves) |-> NoWaveEv]]

\* "-" on a curve
PopEvs == {[NoCurveEv EXCEPT !.minus = TRUE]}

\* "+" on a curve, followed while the curve has fewer than MaxPoints points
PlusEvs(c) == {[NoCurveEv EXCEPT !.plus = TRUE] : x \in {y \in {1} : Len(c) < MaxPoints}}

\* a drag of one point of a curve to one of the DragValues
DragEvs(c) == {[NoCurveEv EXCEPT !.drag = <<p, v>>] : p \in 1..Len(c), v \in DragValues}

\* The frames of the specification of the threads: the master curve is popped
\* and dragged, waves are removed (and added and loaded, see UiPanel, UiParse).
FrameEvents(t) ==
    {NoEv(t)}
    \cup {[NoEv(t) EXCEPT !.amp = e] : e \in PopEvs \cup DragEvs(t.amp)}
    \cup {[NoEv(t) EXCEPT !.waves[n].remove = TRUE] : n \in 1..Len(t.waves)}

\* The frames of the specification of the control surface: "+" and "-" on
\* the master curve, on every wave the arrows, the selector, "+" and "-" on its
\* volume curve and Remove wave, and the frames in which two clicks arrive,
\* Remove wave on one wave and an arrow on another.
EditEvents(t) ==
    {NoEv(t)}
    \cup {[NoEv(t) EXCEPT !.amp = e] : e \in PopEvs \cup PlusEvs(t.amp)}
    \cup UNION {
            {[NoEv(t) EXCEPT !.waves[n].up = TRUE],
             [NoEv(t) EXCEPT !.waves[n].down = TRUE],
             [NoEv(t) EXCEPT !.waves[n].remove = TRUE]}
            \cup {[NoEv(t) EXCEPT !.waves[n].waveform = w] : w \in WaveformChoices}
            \cup {[NoEv(t) EXCEPT !.waves[n].amp = e] : e \in PopEvs \cup PlusEvs(t.waves[n].amp)}
            \cup {[NoEv(t) EXCEPT !.waves[n].remove = TRUE, !.waves[m].up = TRUE] :
                    m \in 1..Len(t.waves) \ {n}}
            \cup {[NoEv(t) EXCEPT !.waves[n].remove = TRUE, !.waves[m].down = TRUE] :
                    m \in 1..Len(t.waves) \ {n}}
            : n \in 1..Len(t.waves)}

-----------------------------------------------------------------------------
(* The state machine *)

NoConfig == [channels |-> 0, sample_rate |-> 0]     \* stream_config: None

\* What default_output_config() can answer (main.rs:245-250)
Negotiable ==
    {[config |-> [channels |-> 1, sample_rate |-> 3], format |-> "F32"],
     [config |-> [channels |-> 2, sample_rate |-> 2], format |-> "I16"]}

Free == [who |-> "none", id |-> 0]
UiGuard == [who |-> "ui", id |-> 0]
SetupGuard(k) == [who |-> "setup", id |-> k]
CbGuard(s) == [who |-> "cb", id |-> s]

\* A setup_audio call that has just been entered
NewAttempt == [pc |-> "negotiate", config |-> NoConfig, format |-> "", live |-> "none",
               cb |-> "idle", data |-> <<>>]

\* A setup_audio call that is over and whose stream has been dropped
Dropped == [pc |-> "done", config |-> NoConfig, format |-> "", live |-> "dropped",
            cb |-> "idle", data |-> <<>>]

\* main.rs:18-28: Playback as constructed, main about to call setup_audio
Init ==
    /\ stream_config = NoConfig
    /\ stream = 0
    /\ sample = 0
    /\ hz = RInt(440)
    /\ timbre = [amp |-> <<Half>>, waves |-> <<>>]
    /\ lock = Free
    /\ uiPc = "boot"
    /\ uiFile = NotClicked
    /\ attempts = <<NewAttempt>>
    /\ errs = 0

\* The process is gone once the main thread has panicked
Running == uiPc # "crashed"

\* setup_audio and setup_stream up to stream.play() (main.rs:241-285) with
\* every expect passing: the stream is built with the negotiated config and
\* format and plays, so its callbacks may be invoked from here on.
Negotiate(k, n) ==
    /\ Running
    /\ attempts[k].pc = "negotiate"
    /\ attempts' = [attempts EXCEPT ![k] =
                        [attempts[k] EXCEPT !.pc = "built", !.config = n.config,
                                            !.format = n.format, !.live = "playing"]]
    /\ UNCHANGED <<playback, lock, uiPc, uiFile, errs>>

\* One of the expects of main.rs:244,247,262,284,285 fails: the thread panics.
\* On the main thread that ends the process, on a spawned thread only the thread.
NegotiateFails(k) ==
    /\ Running
    /\ attempts[k].pc = "negotiate"
    /\ attempts' = [attempts EXCEPT ![k].pc = "panicked"]
    /\ uiPc' = IF k = 1 THEN "crashed" ELSE uiPc
    /\ UNCHANGED <<playback, lock, uiFile, errs>>

\* setup_stream writing Playback without waiting for the guard to be free
SetupLockNoWait(k) ==
    /\ Running
    /\ attempts[k].pc = "built"
    /\ lock' = SetupGuard(k)
    /\ attempts' = [attempts EXCEPT ![k].pc = "locked"]
    /\ UNCHANGED <<playback, uiPc, uiFile, errs>>

\* main.rs:286: app.0.lock()
SetupLock(k) ==
    /\ Running
    /\ attempts[k].pc = "built"
    /\ lock = Free
    /\ lock' = SetupGuard(k)
    /\ attempts' = [attempts EXCEPT ![k].pc = "locked"]
    /\ UNCHANGED <<playback, uiPc, uiFile, errs>>

\* A setup_stream that lets go of the guard once the config is stored
InstallConfigUnlocks(k) ==
    /\ Running
    /\ attempts[k].pc = "locked"
    /\ lock = SetupGuard(k)
    /\ stream_config' = attempts[k].config
    /\ lock' = Free
    /\ attempts' = [attempts EXCEPT ![k].pc = "stored"]
    /\ UNCHANGED <<stream, sample, hz, timbre, uiPc, uiFile, errs>>

\* main.rs:287: lock.stream_config = Some(config.clone())
InstallConfig(k) ==
    /\ Running
    /\ attempts[k].pc = "locked"
    /\ lock = SetupGuard(k)
    /\ stream_config' = attempts[k].config
    /\ attempts' = [attempts EXCEPT ![k].pc = "stored"]
    /\ UNCHANGED <<stream, sample, hz, timbre, lock, uiPc, uiFile, errs>>

\* setup_stream restarting the time base with the new stream
InstallResets(k) ==
    /\ Running
    /\ attempts[k].pc = "stored"
    /\ lock = SetupGuard(k)
    /\ stream' = k
    /\ sample' = 0
    /\ attempts' = [j \in 1..Len(attempts) |->
                        IF j = k THEN [attempts[j] EXCEPT !.pc = "done"]
                        ELSE IF j = stream THEN Dropped
                        ELSE attempts[j]]
    /\ lock' = Free
    /\ uiPc' = IF k = 1 THEN "idle" ELSE uiPc
    /\ UNCHANGED <<stream_config, hz, timbre, uiFile, errs>>

\* main.rs:288-289: the stream is stored, the stream that was stored before
\* is dropped by the assignment, the guard is dropped at the end of the
\* function.  The main thread goes on to run the UI.
Install(k) ==
    /\ Running
    /\ attempts[k].pc = "stored"
    /\ lock = SetupGuard(k)
    /\ stream' = k
    /\ attempts' = [j \in 1..Len(attempts) |->
                        IF j = k THEN [attempts[j] EXCEPT !.pc = "done"]
                        ELSE IF j = stream THEN Dropped
                        ELSE attempts[j]]
    /\ lock' = Free
    /\ uiPc' = IF k = 1 THEN "idle" ELSE uiPc
    /\ UNCHANGED <<stream_config, sample, hz, timbre, uiFile, errs>>

\* An error closure that logs the error and starts nothing
ErrorCallbackNoSpawn(s) ==
    /\ Running
    /\ attempts[s].live = "playing"
    /\ errs < MaxAttempts
    /\ errs' = errs + 1
    /\ UNCHANGED <<playback, lock, uiPc, uiFile, attempts>>

\* The error closure of build_output_stream (main.rs:277-281), invoked by the
\* backend for a stream that plays: eprintln, then thread::spawn of setup_audio.
ErrorCallback(s) ==
    /\ Running
    /\ attempts[s].live = "playing"
    /\ Len(attempts) < MaxAttempts
    /\ attempts' = Append(attempts, NewAttempt)
    /\ errs' = errs + 1
    /\ UNCHANGED <<playback, lock, uiPc, uiFile>>

\* The buffer the backend hands to the data closure of stream s: whole frames
\* of that stream, nothing written yet.
Buffer(s, frames) == [j \in 1..(frames * attempts[s].config.channels) |-> Unwritten]

\* A write_data that, finding no config in Playback, goes on with the config
\* its own stream was built with
CbFillOwnConfig(s, frames) ==
    /\ Running
    /\ attempts[s].live = "playing"
    /\ attempts[s].cb = "idle"
    /\ lock = Free
    /\ lock' = CbGuard(s)
    /\ LET cfg == IF stream_config = NoConfig THEN attempts[s].config ELSE stream_config
           r == FillFrom(Buffer(s, frames), 1, sample, cfg, attempts[s].format, timbre, hz)
       IN  /\ sample' = r.sample
           /\ attempts' = [attempts EXCEPT
                   ![s].data = r.data,
                   ![s].cb = IF r.ok THEN "returning" ELSE "panicking"]
    /\ UNCHANGED <<stream_config, stream, hz, timbre, uiPc, uiFile, errs>>

\* write_data, main.rs:292-311: the backend calls the data closure of a
\* playing stream, which takes the lock and then either returns early for
\* want of a config or runs the loop over the frames, which a panic of
\* Curve::at leaves half way.  The lock is still held when the step ends.
CbFill(s, frames) ==
    /\ Running
    /\ attempts[s].live = "playing"
    /\ attempts[s].cb = "idle"
    /\ lock = Free
    /\ lock' = CbGuard(s)
    /\ IF stream_config = NoConfig
       THEN /\ attempts' = [attempts EXCEPT ![s].cb = "returning",
                                            ![s].data = Buffer(s, frames)]
            /\ UNCHANGED sample
       ELSE LET r == FillFrom(Buffer(s, frames), 1, sample, stream_config,
                              attempts[s].format, timbre, hz)
            IN  /\ sample' = r.sample
                /\ attempts' = [attempts EXCEPT
                        ![s].data = r.data,
                        ![s].cb = IF r.ok THEN "returning" ELSE "panicking"]
    /\ UNCHANGED <<stream_config, stream, hz, timbre, uiPc, uiFile, errs>>

\* write_data, main.rs:295,312: the guard is dropped on return and on
\* unwinding, and the buffer goes back to the backend.  A panic ends the
\* backend's thread of that stream.
CbReturn(s) ==
    /\ Running
    /\ attempts[s].cb \in {"returning", "panicking"}
    /\ lock' = Free
    /\ attempts' = [attempts EXCEPT
            ![s].cb = "idle",
            ![s].data = <<>>,
            ![s].live = IF attempts[s].cb = "panicking" THEN "dead" ELSE @]
    /\ UNCHANGED <<playback, uiPc, uiFile, errs>>

\* MyApp::update, main.rs:126: self.0.lock()
UiLock ==
    /\ uiPc = "idle"
    /\ lock = Free
    /\ lock' = UiGuard
    /\ uiPc' = "panel"
    /\ UNCHANGED <<playback, uiFile, attempts, errs>>

\* An Add wave button that puts the new wave in front of the others
UiPanelFront(h, add, click) ==
    /\ uiPc = "panel"
    /\ hz' = h
    /\ timbre' = IF add THEN [timbre EXCEPT !.waves = <<NewWave>> \o @] ELSE timbre
    /\ uiPc' = CASE click = "save" -> "save"
                 [] click = "load" -> "load"
                 [] OTHER -> "curves"
    /\ UNCHANGED <<stream_config, stream, sample, lock, uiFile, attempts, errs>>

\* main.rs:128-146: the hz slider, the Add wave button, and which of the Save
\* and Load buttons was clicked.  A clicked Save opens the save dialog and a
\* clicked Load the pick dialog, with the guard still held.
UiPanel(h, add, click) ==
    /\ uiPc = "panel"
    /\ hz' = h
    /\ timbre' = IF add THEN [timbre EXCEPT !.waves = Append(@, NewWave)] ELSE timbre
    /\ uiPc' = CASE click = "save" -> "save"
                 [] click = "load" -> "load"
                 [] OTHER -> "curves"
    /\ UNCHANGED <<stream_config, stream, sample, lock, uiFile, attempts, errs>>

\* main.rs:138-146: save_file() returns, to_string and fs::write run; whatever
\* their outcome nothing of Playback is written.  Then the Load button is read.
UiSaveDone(load) ==
    /\ uiPc = "save"
    /\ uiPc' = IF load THEN "load" ELSE "curves"
    /\ UNCHANGED <<playback, lock, uiFile, attempts, errs>>

\* main.rs:147: pick_file() returns a path or nothing
UiPick(choice) ==
    /\ uiPc = "load"
    /\ uiFile' = choice
    /\ uiPc' = "parse"
    /\ UNCHANGED <<playback, lock, attempts, errs>>

\* A load that falls back to the default patch when the file is no patch
UiParseOrDefault ==
    /\ uiPc = "parse"
    /\ timbre' = IF LoadOk(uiFile) THEN DeTimbre(FileContent(uiFile))
                 ELSE [amp |-> <<Half>>, waves |-> <<>>]
    /\ uiPc' = "curves"
    /\ UNCHANGED <<stream_config, stream, sample, hz, lock, uiFile, attempts, errs>>

\* main.rs:148-154: read, parse, and replace the timbre if all of it worked
UiParse ==
    /\ uiPc = "parse"
    /\ timbre' = IF LoadOk(uiFile) THEN DeTimbre(FileContent(uiFile)) ELSE timbre
    /\ uiPc' = "curves"
    /\ UNCHANGED <<stream_config, stream, sample, hz, lock, uiFile, attempts, errs>>

\* main.rs:157-171: the curves and the waves are edited, update returns and
\* drops its locals and the guard.  A panic on the main thread ends the process.
UiCurves(ev) ==
    /\ uiPc = "curves"
    /\ LET r == EditTimbre(timbre, ev)
       IN  /\ timbre' = r.v
           /\ uiPc' = IF r.ok THEN "idle" ELSE "crashed"
    /\ lock' = Free
    /\ uiFile' = NotClicked
    /\ UNCHANGED <<stream_config, stream, sample, hz, attempts, errs>>

Next ==
    \/ \E k \in 1..Len(attempts), n \in Negotiable : Negotiate(k, n)
    \/ \E k \in 1..Len(attempts) : NegotiateFails(k)
    \/ \E k \in 1..Len(attempts) : SetupLock(k)
    \/ \E k \in 1..Len(attempts) : InstallConfig(k)
    \/ \E k \in 1..Len(attempts) : Install(k)
    \/ \E s \in 1..Len(attempts) : ErrorCallback(s)
    \/ \E s \in 1..Len(attempts), frames \in 1..MaxFrames : CbFill(s, frames)
    \/ \E s \in 1..Len(attempts) : CbReturn(s)
    \/ UiLock
    \/ \E h \in HzValues, add \in BOOLEAN, click \in Clicks :
            (add => Len(timbre.waves) < MaxWaves) /\ UiPanel(h, add, click)
    \/ \E load \in BOOLEAN : UiSaveDone(load)
    \/ \E choice \in Paths \cup {Cancelled} : UiPick(choice)
    \/ UiParse
    \/ \E ev \in FrameEvents(timbre) : UiCurves(ev)

Spec == Init /\ [][Next]_vars

\* The answers of the Load dialog on the control surface alone: the two files
\* that are patches, or none
EditChoices == {"patch.json", "empty.json", Cancelled}

\* The control surface alone: main sets the stream up, then frames in which
\* any widget is used; the stream is never polled and reports no error.  The
\* slider is at rest in a frame in which Add wave is clicked.
NextEdit ==
    \/ \E n \in Negotiable : Negotiate(1, n)
    \/ NegotiateFails(1)
    \/ SetupLock(1)
    \/ InstallConfig(1)
    \/ Install(1)
    \/ UiLock
    \/ \E h \in HzValues, add \in BOOLEAN, click \in Clicks :
            /\ add => h = hz /\ Len(timbre.waves) < MaxEditWaves
            /\ UiPanel(h, add, click)
    \/ \E load \in BOOLEAN : UiSaveDone(load)
    \/ \E choice \in EditChoices : UiPick(choice)
    \/ UiParse
    \/ \E ev \in EditEvents(timbre) : UiCurves(ev)

SpecEdit == Init /\ [][NextEdit]_vars

\* One stream that never reports an error: main sets it up, the backend
\* calls its data callback, and the UI runs the frames of FrameEvents and
\* those with "+" on the master curve.
NextPlay ==
    \/ \E n \in Negotiable : Negotiate(1, n)
    \/ NegotiateFails(1)
    \/ SetupLock(1)
    \/ InstallConfig(1)
    \/ Install(1)
    \/ \E frames \in 1..MaxFrames : CbFill(1, frames)
    \/ CbReturn(1)
    \/ UiLock
    \/ \E h \in HzValues, add \in BOOLEAN, click \in Clicks :
            (add => Len(timbre.waves) < MaxWaves) /\ UiPanel(h, add, click)
    \/ \E load \in BOOLEAN : UiSaveDone(load)
    \/ \E choice \in Paths \cup {Cancelled} : UiPick(choice)
    \/ UiParse
    \/ \E ev \in FrameEvents(timbre)
                 \cup {[NoEv(timbre) EXCEPT !.amp = e] : e \in PlusEvs(timbre.amp)} :
            UiCurves(ev)

SpecPlay == Init /\ [][NextPlay]_vars

TypeOK ==
    /\ sample \in Nat
    /\ stream \in 0..Len(attempts)
    /\ lock.who \in {"none", "ui", "setup", "cb"}

\* The steps of a setup_audio call, of the UI thread inside update (dialogs
\* answered included) and of a callback that has run its loop
SetupStep(k) ==
    \/ \E n \in Negotiable : Negotiate(k, n)
    \/ NegotiateFails(k)
    \/ SetupLock(k)
    \/ InstallConfig(k)
    \/ Install(k)

UiStep ==
    \/ \E h \in HzValues, add \in BOOLEAN, click \in Clicks :
            (add => Len(timbre.waves) < MaxWaves) /\ UiPanel(h, add, click)
    \/ \E load \in BOOLEAN : UiSaveDone(load)
    \/ \E choice \in Paths \cup {Cancelled} : UiPick(choice)
    \/ UiParse
    \/ \E ev \in FrameEvents(timbre) : UiCurves(ev)

CbStep == \E s \in 1..Len(attempts) : CbReturn(s)

\* Scheduling: a thread that can take a step of its own takes it, a thread
\* waiting for the mutex gets it if it is free again and again, and every
\* dialog is answered.  Nothing obliges the backend to call a callback or the
\* UI to draw another frame.
FairSpec ==
    /\ Spec
    /\ WF_vars(UiStep)
    /\ WF_vars(CbStep)
    /\ \A k \in 2..MaxAttempts : SF_vars(k <= Len(attempts) /\ SetupStep(k))

-----------------------------------------------------------------------------
(* Properties *)

\* The threads that are inside a critical section of Playback, by their position
InCS ==
    {UiGuard : x \in {y \in {1} : uiPc \in {"panel", "save", "load", "parse", "curves"}}}
    \cup {SetupGuard(k) : k \in {j \in 1..Len(attempts) : attempts[j].pc \in {"locked", "stored"}}}
    \cup {CbGuard(k) : k \in {j \in 1..Len(attempts) : attempts[j].cb # "idle"}}

\* C1: whenever a stream configuration is installed, Playback.sample is
\* strictly less than the installed sample rate.
SampleBelowRate ==
    stream_config # NoConfig => sample < stream_config.sample_rate

\* C2: the threads inside a critical section of Playback are exactly the
\* current owner of the lock, so never two of them, and none that has
\* returned; and Playback changes only in steps of a thread that owns the lock
\* before the step or, having just taken it, after the step.
MutualExclusion ==
    /\ [](InCS = IF lock = Free THEN {} ELSE {lock})
    /\ [][playback' # playback => lock # Free \/ lock' # Free]_vars

MutualExclusionWitness ==
    /\ lock.who = "cb"
    /\ uiPc = "idle"
    /\ \E k \in 1..Len(attempts) : attempts[k].pc = "built"

\* C3: from the moment a rebuild takes the lock until it has installed the new
\* stream and released the lock, timbre, hz and sample keep their values.
RebuildKeepsPatch ==
    [][(lock.who = "setup" \/ lock'.who = "setup") =>
            UNCHANGED <<timbre, hz, sample>>]_vars

RebuildKeepsPatchWitness ==
    /\ stream > 1
    /\ stream_config = attempts[stream].config
    /\ timbre.waves # <<>>
    /\ timbre.amp # <<Half>>
    /\ hz # RInt(440)
    /\ sample > 0

\* C4: every invocation of the error callback starts exactly one new
\* setup_audio call, on a new thread, and itself touches neither the lock nor
\* Playback nor any stream.
ErrorSpawnsOneAttempt ==
    /\ [](Len(attempts) = 1 + errs)
    /\ [][errs' # errs =>
            /\ errs' = errs + 1
            /\ attempts' = Append(attempts, NewAttempt)
            /\ UNCHANGED <<playback, lock>>]_vars

ErrorSpawnsOneAttemptWitness ==
    /\ errs = 1
    /\ Len(attempts) = 2
    /\ attempts[2].pc = "negotiate"
    /\ lock # Free

\* C5: whenever a stream has reported an asynchronous error, a stream built
\* after that error is eventually installed in Playback (or the process has
\* ended for another reason).
EventualRecovery ==
    \A k \in 2..MaxAttempts :
        (Len(attempts) >= k) ~> (stream >= k \/ ~Running)

\* C6: a thread that holds the Playback lock is never waiting for a dialog or
\* for file I/O.
HolderNeverWaits ==
    ~(lock = UiGuard /\ uiPc \in {"save", "load"})

\* C7: every curve reachable from Playback has at least one point.
CurvesNonEmpty ==
    /\ Len(timbre.amp) >= 1
    /\ \A n \in 1..Len(timbre.waves) :
          Len(timbre.waves[n].amp) >= 1 /\ Len(timbre.waves[n].freq) >= 1

\* The outcomes of the Load dialog that are not a patch: no file chosen, a
\* file that cannot be read, a document whose freq is a number where a Curve
\* (an array) is expected.
FailedLoads == {Cancelled, "unreadable.json", "scalar.json"}

\* A step of the Load block of update, main.rs:147-154, and what it may do
LoadStep ==
    uiPc \in {"load", "parse"} /\ uiPc' # uiPc =>
            /\ UNCHANGED <<hz, sample, stream_config, stream>>
            /\ uiPc = "load" => timbre' = timbre
            /\ uiPc = "parse" /\ uiFile \in FailedLoads => timbre' = timbre
            /\ uiPc = "parse" /\ uiFile = "patch.json" =>
                    timbre' = [amp |-> <<One, Half>>,
                               waves |-> <<[waveform |-> "Square", freq |-> <<One>>,
                                            amp |-> <<One>>]>>]
            /\ uiPc = "parse" /\ uiFile = "empty.json" =>
                    timbre' = [amp |-> <<>>, waves |-> <<>>]

\* C8: a failed load leaves the whole of Playback as it was; a successful one
\* replaces the timbre by the parsed document and nothing else.
LoadKeepsOrReplaces == [][LoadStep]_vars

LoadKeepsOrReplacesWitness ==
    /\ uiPc = "curves"
    /\ uiFile = "scalar.json"
    /\ timbre.waves # <<>>
    /\ timbre.amp # <<Half>>

\* Number of chunks of ch slots in a buffer of n slots
Frames(n, ch) == (n + ch - 1) \div ch

\* C9: a sample-fill with a config of rate R installed takes the counter from
\* c to (c + N) mod R, N being the number of frames of the buffer.
CounterAdvance ==
    [][\A s \in 1..Len(attempts) :
            attempts[s].cb = "idle" /\ attempts'[s].cb # "idle"
            /\ stream_config # NoConfig =>
                sample' = (sample + Frames(Len(attempts'[s].data), stream_config.channels))
                            % stream_config.sample_rate]_vars

\* C10: when write_data leaves its loop with a config installed, every slot of
\* the buffer is written and the slots of one frame hold the same value.
BufferFilled ==
    \A s \in 1..Len(attempts) :
        attempts[s].cb \in {"returning", "panicking"} /\ stream_config # NoConfig =>
            LET d == attempts[s].data
                ch == stream_config.channels
            IN  /\ \A j \in 1..Len(d) : d[j] # Unwritten
                /\ \A i, j \in 1..Len(d) :
                      (i - 1) \div ch = (j - 1) \div ch => d[i] = d[j]
\* C11: removing the only wave leaves no wave, and while there is no wave
\* every slot a sample-fill writes, at whatever counter value it starts, holds
\* the conversion of 0.0 to the stream's sample format.
SilentWithoutWaves ==
    /\ Len(timbre.waves) = 1 =>
            LET r == EditTimbre(timbre, [NoEv(timbre) EXCEPT !.waves[1].remove = TRUE])
            IN  r.ok /\ r.v.waves = <<>> /\ r.v.amp = timbre.amp
    /\ \A s \in 1..Len(attempts) :
            attempts[s].cb \in {"returning", "panicking"} /\ stream_config # NoConfig
            /\ timbre.waves = <<>> =>
                \A j \in 1..Len(attempts[s].data) :
                    attempts[s].data[j] # Unwritten =>
                        attempts[s].data[j] = FromSample(attempts[s].format, Zero)

\* The loaded patch with its only wave removed, and a fill that has written
\* its buffer and moved the counter
SilentWithoutWavesWitness ==
    /\ timbre = [amp |-> <<One, Half>>, waves |-> <<>>]
    /\ \E s \in 1..Len(attempts) :
            /\ attempts[s].cb = "returning"
            /\ stream_config # NoConfig
            /\ Len(attempts[s].data) > 0
            /\ sample # 0
            /\ \A j \in 1..Len(attempts[s].data) : attempts[s].data[j] = Zero

\* C12: a frame in which Add wave is clicked appends one wave, Sine with
\* freq [1.0] and amp [0.5], after the waves there are, and changes none of
\* these, nor the master curve, nor hz.
AddWaveAppends ==
    [][uiPc = "panel" /\ uiPc' # "panel" /\ timbre' # timbre =>
            /\ timbre'.waves = Append(timbre.waves,
                    [waveform |-> "Sine", freq |-> <<One>>, amp |-> <<Half>>])
            /\ timbre'.amp = timbre.amp
            /\ hz' = hz]_vars

\* Add wave has been clicked with the wave of the loaded patch in place
AddWaveAppendsWitness ==
    /\ uiPc = "curves"
    /\ hz = RInt(2000)
    /\ timbre = [amp |-> <<One, Half>>,
                 waves |-> <<[waveform |-> "Square", freq |-> <<One>>, amp |-> <<One>>],
                             [waveform |-> "Sine", freq |-> <<One>>, amp |-> <<Half>>]>>]

\* The curves of the timbre: the master curve and the two curves of each wave
Curves ==
    {timbre.amp}
    \cup {timbre.waves[n].amp : n \in 1..Len(timbre.waves)}
    \cup {timbre.waves[n].freq : n \in 1..Len(timbre.waves)}

\* C13: on every curve of the timbre "+" returns the curve with one more
\* point, equal to the last one, and the points before as they were; "-"
\* returns the curve without its last point if it has more than one point, and
\* the curve as it is, without error, if it has one.
CurveMutation ==
    \A c \in Curves :
        LET plus == ui_curve(c, [NoCurveEv EXCEPT !.plus = TRUE])
            minus == ui_curve(c, [NoCurveEv EXCEPT !.minus = TRUE])
        IN  /\ plus.ok
            /\ Len(plus.v) = Len(c) + 1
            /\ plus.v[Len(c) + 1] = c[Len(c)]
            /\ \A i \in 1..Len(c) : plus.v[i] = c[i]
            /\ minus.ok
            /\ Len(c) > 1 => minus.v = SubSeq(c, 1, Len(c) - 1)
            /\ Len(c) = 1 => minus.v = c

\* Values of t in [0, 1]: the ends, and points inside
UnitGrid == {Zero, Rat(1, 4), Rat(1, 3), Half, Rat(2, 3), Rat(3, 4), One}

\* C14: for every curve of the timbre that has n >= 1 points and every t of
\* the grid, Curve::at reads only indices in 0..n-1 and does not panic; at
\* t = 1 it returns the last point, and on a curve of one point that point.
CurveAtInBounds ==
    \A c \in Curves : Len(c) >= 1 =>
        \A t \in UnitGrid :
            /\ CurveAtReads(c, t) \subseteq 0..(Len(c) - 1)
            /\ CurveAt(c, t).ok
            /\ t = One => CurveAt(c, t).v = c[Len(c)]
            /\ Len(c) = 1 => CurveAt(c, t).v = c[1]

\* A fill has evaluated the two-point master curve of the loaded patch
\* between its points: 5/6 at sec = 1/3
CurveAtInBoundsWitness ==
    /\ timbre.amp = <<One, Half>>
    /\ \E s \in 1..Len(attempts) :
            /\ attempts[s].cb = "returning"
            /\ \E j \in 1..Len(attempts[s].data) :
                    attempts[s].data[j] \in {Rat(5, 6), Rat(-5, 6)}

\* Number of positions of the sequence q that hold x
Count(q, x) == Cardinality({n \in 1..Len(q) : q[n] = x})

\* C15: in every frame of EditEvents, each swap recorded by wave_ui is of two
\* adjacent positions, both inside the waves that retain_mut has kept; the
\* swaps are applied without panic and leave the kept waves, each as often as
\* before; and "^" on the first wave and "v" on the last wave change nothing.
ReorderSafe ==
    \A ev \in EditEvents(timbre) :
        LET r == retain_mut(timbre.waves, ev.waves, 1, 0, <<>>, <<>>)
            w == ApplySwaps(r.waves, r.swap)
            len == Len(timbre.waves)
        IN  r.ok =>
                /\ \A n \in 1..Len(r.swap) :
                        /\ r.swap[n][1] < Len(r.waves)
                        /\ r.swap[n][2] < Len(r.waves)
                        /\ r.swap[n][1] - r.swap[n][2] \in {-1, 1}
                /\ w.ok
                /\ Len(w.waves) = Len(r.waves)
                /\ \A n \in 1..Len(r.waves) :
                        Count(w.waves, r.waves[n]) = Count(r.waves, r.waves[n])
                /\ len >= 1 /\ ev = [NoEv(timbre) EXCEPT !.waves[1].up = TRUE] =>
                        w.waves = timbre.waves
                /\ len >= 1 /\ ev = [NoEv(timbre) EXCEPT !.waves[len].down = TRUE] =>
                        w.waves = timbre.waves

\* C16: a write_data call that finds no config in Playback writes no slot of
\* its buffer, leaves sample, timbre and hz as they are and returns, and its
\* return frees the lock.
NoConfigNoWrite ==
    [][\A s \in 1..Len(attempts) :
            /\ attempts[s].cb = "idle" /\ attempts'[s].cb # "idle"
               /\ stream_config = NoConfig =>
                    /\ attempts'[s].cb = "returning"
                    /\ \A j \in 1..Len(attempts'[s].data) :
                            attempts'[s].data[j] = Unwritten
                    /\ UNCHANGED <<sample, timbre, hz, stream_config, stream>>
            /\ attempts[s].cb # "idle" /\ attempts'[s].cb = "idle" =>
                    lock = CbGuard(s) /\ lock' = Free]_vars

\* The callback of the stream main has built and not yet installed is about
\* to return, its buffer as it was handed in
NoConfigNoWriteWitness ==
    /\ stream_config = NoConfig
    /\ attempts[1].pc = "built"
    /\ attempts[1].cb = "returning"
    /\ Len(attempts[1].data) > 0
    /\ \A j \in 1..Len(attempts[1].data) : attempts[1].data[j] = Unwritten
    /\ lock = CbGuard(1)

\* C17: a write_data call that runs its loop does so with the channel count
\* and the sample rate of the stream whose callback it is.
FillUsesOwnConfig ==
    \A s \in 1..Len(attempts) :
        attempts[s].cb \in {"returning", "panicking"} /\ stream_config # NoConfig =>
            stream_config = attempts[s].config

\* C18: at most one stream is in the playing state and at most one
\* setup_audio call is negotiating.
OneStreamOneNegotiation ==
    /\ Cardinality({s \in 1..Len(attempts) : attempts[s].live = "playing"}) <= 1
    /\ Cardinality({k \in 1..Len(attempts) : attempts[k].pc = "negotiate"}) <= 1

\* C19: whenever the lock is not held by a setup_stream call, Playback holds
\* either no config and no stream, or a stream and the config that stream was
\* built with.
ConfigWithStream ==
    lock.who # "setup" =>
        /\ stream = 0 <=> stream_config = NoConfig
        /\ stream # 0 => stream_config = attempts[stream].config

\* A rebuild has replaced a stream and its config by a stream with another
\* config, and the UI holds the lock
ConfigWithStreamWitness ==
    /\ stream = 2
    /\ attempts[1] = Dropped
    /\ stream_config = attempts[2].config
    /\ stream_config.channels = 1
    /\ lock = UiGuard

====
